---- MODULE Spec2Model ----
(***************************************************************************)
(* Multi-task dataset composition (ocpmodels/trainers/mt): the dataset     *)
(* decorators of dataset_transform.py and the composer of dataset.py.      *)
(*                                                                         *)
(* Four specifications share the definitions below:                       *)
(*   Spec          create_datasets and item access on what it returns      *)
(*   SpecResample  _combine_datasets / _merged_dataset on lists of sizes   *)
(*   SpecChain     chains of decorators over one dataset, used by one      *)
(*                 caller                                                  *)
(*   SpecMeta      one decorated dataset whose atoms_metadata is read by   *)
(*                 concurrent workers                                      *)
(***************************************************************************)
EXTENDS Integers, Sequences, FiniteSets, TLC

(***************************************************************************)
(* Bounds of the model.                                                    *)
(***************************************************************************)
\* Spec: number of tasks in config.datasets, and items over all raw datasets
MaxTasks == 2
MaxItems == 3
MaxTotal == 5
MaxEval == 2
\* SpecResample: datasets per call, dataset size for _combine_datasets,
\* dataset size and ratio numerators for _merged_dataset
MaxK == 2
MaxN == 6
MaxMergedN == 3
MaxR == 2
\* SpecChain / SpecMeta: dataset length, decorators in a chain, workers,
\* and the n of a decorator
MaxLen == 2
MaxDepth == 2
MaxWorkers == 2
MaxWrapN == 3
\* SpecChain: reads of the raw dataset's atoms_metadata
MaxReads == 2

VARIABLES
    config,     \* Spec: the DatasetConfig given to create_datasets
    shared,     \* whether a raw dataset hands out its stored item instances
    storage,    \* raw dataset id -> the items the raw dataset holds
    ret,        \* what the call under study returned or raised; <<>> before
    last,       \* the outcome of the latest item access
    args,       \* SpecResample: the arguments of the call
    ds,         \* SpecChain, SpecMeta: the decorated dataset
    cache,      \* per decorator of ds: the memoized atoms_metadata, if any
    workers,    \* per worker: its position in an atoms_metadata access
    metaReads   \* reads of the raw dataset's atoms_metadata so far

vars == <<config, shared, storage, ret, last, args, ds, cache, workers, metaReads>>

(***************************************************************************)
(* IEEE-754 binary64 arithmetic, as Python float and numpy float64 compute *)
(* it (round to nearest, ties to even).  A positive float is               *)
(* [m |-> mantissa, e |-> exponent], value m * 2^e, with m a natural of    *)
(* exactly Precision bits held as little-endian limbs of LimbBits bits.    *)
(* The values of the resampling computation are positive and far from the  *)
(* overflow and subnormal ranges, so zero, signs, infinities and NaN are   *)
(* not represented.                                                        *)
(***************************************************************************)
Precision == 53
LimbBits == 15
LimbBase == 32768

\* TLC evaluates LET definitions on demand; comparing a value with itself
\* evaluates it where it is defined and keeps the evaluation stack shallow.
Strict(x) == x = x

RECURSIVE BigTrim(_)
BigTrim(a) ==
    IF a = <<>> THEN <<>>
    ELSE IF a[Len(a)] = 0 THEN BigTrim(SubSeq(a, 1, Len(a) - 1)) ELSE a

RECURSIVE BigFromInt(_)
BigFromInt(n) ==
    IF n = 0 THEN <<>> ELSE <<n % LimbBase>> \o BigFromInt(n \div LimbBase)

RECURSIVE BigToInt(_)
BigToInt(a) ==
    IF a = <<>> THEN 0 ELSE Head(a) + LimbBase * BigToInt(Tail(a))

RECURSIVE BigAddC(_, _, _)
BigAddC(a, b, c) ==
    IF a = <<>> /\ b = <<>> THEN (IF c = 0 THEN <<>> ELSE <<c>>)
    ELSE LET x == IF a = <<>> THEN 0 ELSE Head(a)
             y == IF b = <<>> THEN 0 ELSE Head(b)
             s == x + y + c
         IN <<s % LimbBase>>
              \o BigAddC(IF a = <<>> THEN <<>> ELSE Tail(a),
                         IF b = <<>> THEN <<>> ELSE Tail(b), s \div LimbBase)

BigAdd(a, b) == BigAddC(a, b, 0)

RECURSIVE BigSubB(_, _, _)
BigSubB(a, b, c) ==
    IF a = <<>> THEN <<>>
    ELSE LET y == IF b = <<>> THEN 0 ELSE Head(b)
             d == Head(a) - y - c
         IN <<d % LimbBase>>
              \o BigSubB(Tail(a), IF b = <<>> THEN <<>> ELSE Tail(b),
                         IF d < 0 THEN 1 ELSE 0)

\* a - b for a >= b
BigSub(a, b) == BigTrim(BigSubB(a, b, 0))

RECURSIVE BigCmpAt(_, _, _)
BigCmpAt(a, b, i) ==
    IF i = 0 THEN 0
    ELSE IF a[i] < b[i] THEN -1
    ELSE IF a[i] > b[i] THEN 1
    ELSE BigCmpAt(a, b, i - 1)

BigCmp(a, b) ==
    IF Len(a) < Len(b) THEN -1
    ELSE IF Len(a) > Len(b) THEN 1
    ELSE BigCmpAt(a, b, Len(a))

RECURSIVE BigMulSmallC(_, _, _)
BigMulSmallC(a, d, c) ==
    IF a = <<>> THEN (IF c = 0 THEN <<>> ELSE <<c>>)
    ELSE LET p == Head(a) * d + c
         IN <<p % LimbBase>> \o BigMulSmallC(Tail(a), d, p \div LimbBase)

\* a * d for one limb d
BigMulSmall(a, d) == IF d = 0 THEN <<>> ELSE BigMulSmallC(a, d, 0)

RECURSIVE BigMul(_, _)
BigMul(a, b) ==
    IF b = <<>> THEN <<>>
    ELSE BigAdd(BigMulSmall(a, Head(b)),
                LET r == BigMul(a, Tail(b)) IN IF r = <<>> THEN <<>> ELSE <<0>> \o r)

SmallBitLen(x) == CHOOSE k \in 0..LimbBits : x < 2^k /\ (k = 0 \/ x >= 2^(k - 1))

BigBitLen(a) ==
    IF a = <<>> THEN 0 ELSE (Len(a) - 1) * LimbBits + SmallBitLen(a[Len(a)])

\* a * 2^s
BigShl(a, s) ==
    IF a = <<>> THEN <<>>
    ELSE [i \in 1..(s \div LimbBits) |-> 0] \o BigMulSmall(a, 2^(s % LimbBits))

\* bit k (from 0) of a
BigBit(a, k) ==
    LET i == (k \div LimbBits) + 1
    IN IF i > Len(a) THEN 0 ELSE (a[i] \div 2^(k % LimbBits)) % 2

\* whether any of the k lowest bits of a is set
BigLowBits(a, k) ==
    LET w == k \div LimbBits
    IN \/ \E i \in 1..w : i <= Len(a) /\ a[i] # 0
       \/ w + 1 <= Len(a) /\ a[w + 1] % 2^(k % LimbBits) # 0

\* floor(a / 2^s)
BigShr(a, s) ==
    LET w == s \div LimbBits
        r == s % LimbBits
        n == Len(a) - w
    IN IF n <= 0 THEN <<>>
       ELSE BigTrim([i \in 1..n |->
                (a[w + i] \div 2^r)
                + (IF w + i + 1 <= Len(a)
                   THEN (a[w + i + 1] % 2^r) * 2^(LimbBits - r) ELSE 0)])

\* q * 2^e for a q of Precision or Precision + 1 bits
FNormal(q, e) ==
    IF BigBitLen(q) > Precision THEN [m |-> BigShr(q, 1), e |-> e + 1]
    ELSE [m |-> q, e |-> e]

\* n * 2^e rounded at bit d >= 1 of n: up when the bit below is set and a
\* lower bit, the sticky flag or bit d itself (the tie goes to even) is set
FRoundAt(n, e, sticky, d) ==
    FNormal(IF BigBit(n, d - 1) = 1
               /\ (sticky \/ BigLowBits(n, d - 1) \/ BigBit(n, d) = 1)
            THEN BigAdd(BigShr(n, d), <<1>>) ELSE BigShr(n, d),
            e + d)

FRoundLen(n, e, sticky, len) ==
    IF len <= Precision
    THEN [m |-> BigShl(n, Precision - len), e |-> e - (Precision - len)]
    ELSE FRoundAt(n, e, sticky, len - Precision)

\* the float nearest to n * 2^e (n > 0), ties to even; sticky: the exact
\* value exceeds n * 2^e by less than 2^e
FRound(n, e, sticky) == FRoundLen(n, e, sticky, BigBitLen(n))

\* float(n) for an integer n > 0
FFromInt(n) == FRound(BigFromInt(n), 0, FALSE)

FMul(x, y) == FRound(BigMul(x.m, y.m), x.e + y.e, FALSE)

FAdd(x, y) ==
    LET lo == IF x.e <= y.e THEN x.e ELSE y.e
    IN FRound(BigAdd(BigShl(x.m, x.e - lo), BigShl(y.m, y.e - lo)), lo, FALSE)

Limb(a, i) == IF i <= Len(a) THEN a[i] ELSE 0

RECURSIVE DivDigit(_, _, _)
\* the largest q <= guess with q * d <= r: <<q, r - q * d>>
DivDigit(r, d, guess) ==
    LET p == BigMulSmall(d, guess)
    IN IF BigCmp(p, r) > 0 THEN DivDigit(r, d, guess - 1) ELSE <<guess, BigSub(r, p)>>

\* one digit of long division in base LimbBase, for r < d and d with its top
\* limb at least LimbBase / 2: <<floor(r * LimbBase / d), the remainder>>
DivStep(r, d) ==
    LET r1 == IF r = <<>> THEN <<>> ELSE <<0>> \o r
        n == Len(d)
        est == (Limb(r1, n + 1) * LimbBase + Limb(r1, n)) \div d[n]
    IN DivDigit(r1, d, IF est >= LimbBase THEN LimbBase - 1 ELSE est)

RECURSIVE DivDigits(_, _, _, _)
RECURSIVE DivPush(_, _, _, _)
\* k more digits of r / d in front of the digits q: <<digits, remainder>>
DivDigits(r, d, k, q) == IF k = 0 THEN <<q, r>> ELSE DivPush(DivStep(r, d), d, k, q)

DivPush(s, d, k, q) == DivDigits(s[2], d, k - 1, <<s[1]>> \o q)

FDivRound(s, e) == FRound(BigTrim(s[1]), e, s[2] # <<>>)

\* n / d * 2^(e + 4 * LimbBits) for d <= n < 2 * d or n < d: the leading
\* digit, then four quotient digits (60 bits); the remainder decides ties
FDivAligned(n, d, e) ==
    IF BigCmp(n, d) >= 0
    THEN FDivRound(DivDigits(BigSub(n, d), d, 4, <<1>>), e)
    ELSE FDivRound(DivDigits(n, d, 4, <<0>>), e)

Fill == (LimbBits - (Precision % LimbBits)) % LimbBits

\* x / y: both mantissas are shifted to fill their top limb
FDiv(x, y) ==
    FDivAligned(BigShl(x.m, Fill), BigShl(y.m, Fill), x.e - y.e - 4 * LimbBits)

FLess(x, y) == x.e < y.e \/ (x.e = y.e /\ BigCmp(x.m, y.m) < 0)

\* math.ceil / np.ceil(...).astype(int) of a positive float
FCeil(x) ==
    IF x.e >= 0 THEN BigToInt(BigShl(x.m, x.e))
    ELSE BigToInt(BigShr(x.m, -x.e)) + (IF BigLowBits(x.m, -x.e) THEN 1 ELSE 0)

RECURSIVE FSumFrom(_, _)
FSumFrom(acc, xs) ==
    IF xs = <<>> THEN acc ELSE FSumFrom(FAdd(acc, Head(xs)), Tail(xs))

\* sum(xs) of the builtin sum: left to right from 0, and 0 + x is x
FSum(xs) == FSumFrom(Head(xs), Tail(xs))

RECURSIVE FMinFrom(_, _)
FMinFrom(acc, xs) ==
    IF xs = <<>> THEN acc
    ELSE FMinFrom(IF FLess(Head(xs), acc) THEN Head(xs) ELSE acc, Tail(xs))

\* np.min(xs)
FMin(xs) == FMinFrom(Head(xs), Tail(xs))

FOne == FFromInt(1)

\* x ** y for y = 1.0, the only exponent the model draws: pow(x, 1.0) is x
FPow(x, y) == IF y = FOne THEN x ELSE x

RECURSIVE IntSum(_)
IntSum(s) == IF s = <<>> THEN 0 ELSE Head(s) + IntSum(Tail(s))

RECURSIVE IntMax(_)
IntMax(s) ==
    IF Len(s) = 1 THEN Head(s)
    ELSE LET m == IntMax(Tail(s)) IN IF Head(s) > m THEN Head(s) ELSE m

(***************************************************************************)
(* dataset.py: the resampling computation                                  *)
(***************************************************************************)
\* target_size = sum(dataset_sizes) / sum(ratios)
TargetSize(dataset_sizes, ratios) ==
    FDiv(FFromInt(IntSum(dataset_sizes)), FSum(ratios))

ExpansionFactorsFor(target_size, dataset_sizes, ratios) ==
    IF ~Strict(target_size) THEN <<>>
    ELSE [i \in 1..Len(dataset_sizes) |->
             FDiv(FMul(target_size, ratios[i]), FFromInt(dataset_sizes[i]))]

\* expansion_factors = target_size * ratios / dataset_sizes
RawExpansionFactors(dataset_sizes, ratios) ==
    ExpansionFactorsFor(TargetSize(dataset_sizes, ratios), dataset_sizes, ratios)

RECURSIVE FMaxFrom(_, _)
FMaxFrom(acc, xs) ==
    IF xs = <<>> THEN acc
    ELSE FMaxFrom(IF FLess(acc, Head(xs)) THEN Head(xs) ELSE acc, Tail(xs))

\* xs / d, elementwise
DivideAll(xs, d) ==
    IF ~Strict(xs) \/ ~Strict(d) THEN <<>>
    ELSE [i \in 1..Len(xs) |-> FDiv(xs[i], d)]

RescaleByMax(expansion_factors) ==
    DivideAll(expansion_factors,
              FMaxFrom(Head(expansion_factors), Tail(expansion_factors)))

\* expansion_factors / np.min(expansion_factors)
RescaleByMin(expansion_factors) ==
    DivideAll(expansion_factors, FMin(expansion_factors))

\* np.ceil(dataset_sizes * factors).astype(int)
CeilScaled(dataset_sizes, factors) ==
    IF ~Strict(factors) THEN <<>>
    ELSE [i \in 1..Len(dataset_sizes) |->
             FCeil(FMul(FFromInt(dataset_sizes[i]), factors[i]))]

SamplesPerDatasetByMax(dataset_sizes, expansion_factors) ==
    CeilScaled(dataset_sizes, RescaleByMax(expansion_factors))

\* np.ceil(dataset_sizes * (expansion_factors / np.min(expansion_factors)))
SamplesPerDataset(dataset_sizes, expansion_factors) ==
    CeilScaled(dataset_sizes, RescaleByMin(expansion_factors))

RescaledFactors(raw) == IF ~Strict(raw) THEN <<>> ELSE RescaleByMin(raw)

SamplesFor(dataset_sizes, expansion_factors) ==
    IF ~Strict(expansion_factors) THEN <<>>
    ELSE SamplesPerDataset(dataset_sizes, expansion_factors)

_merged_dataset(dataset_sizes_list, ratios_list) ==
    SamplesFor(dataset_sizes_list,
               RescaledFactors(RawExpansionFactors(dataset_sizes_list, ratios_list)))

(***************************************************************************)
(* Datasets.  A dataset is [raw |-> id, chain |-> decorators], the proxies *)
(* wrapped around raw dataset `raw`, innermost first.  Every proxy forwards *)
(* what it does not override to the object it wraps.                       *)
(***************************************************************************)
RawDataset(id) == [raw |-> id, chain |-> <<>>]

RECURSIVE ChainLen(_, _, _)
\* len() at decorator lvl of a chain over a raw dataset of rawLen items
ChainLen(chain, lvl, rawLen) ==
    IF lvl = 0 THEN rawLen
    ELSE IF chain[lvl].kind = "transform" THEN ChainLen(chain, lvl - 1, rawLen)
    ELSE chain[lvl].n

\* len(dataset)
DsLen(dataset, rawLens) ==
    ChainLen(dataset.chain, Len(dataset.chain), rawLens[dataset.raw])

Wrap(dataset, decorator) == [dataset EXCEPT !.chain = Append(@, decorator)]

\* expand_dataset(dataset, n): [err, dataset]
expand_dataset(dataset, n, rawLens) ==
    LET og_size == DsLen(dataset, rawLens)
    IN IF og_size > n THEN [err |-> "ValueError", dataset |-> dataset]
       ELSE [err |-> "none",
             dataset |-> Wrap(dataset, [kind |-> "expand", n |-> n, og_size |-> og_size])]

RECURSIVE CumSum(_, _)
CumSum(s, acc) ==
    IF s = <<>> THEN <<>> ELSE <<acc + Head(s)>> \o CumSum(Tail(s), acc + Head(s))

NoDataset == [datasets |-> <<>>, cumulative_sizes |-> <<>>]

\* torch.utils.data.ConcatDataset(datasets), for a non-empty list
ConcatDataset(datasets, rawLens) ==
    [datasets |-> datasets,
     cumulative_sizes |->
        CumSum([i \in 1..Len(datasets) |-> DsLen(datasets[i], rawLens)], 0)]

ConcatLen(c) ==
    IF c.datasets = <<>> THEN 0 ELSE c.cumulative_sizes[Len(c.cumulative_sizes)]

(***************************************************************************)
(* dataset.py: _combine_datasets                                           *)
(***************************************************************************)
FullyBalanced == [kind |-> "FullyBalanced", temperature |-> 0]
Temperature(t) == [kind |-> "Temperature", temperature |-> t]
OtherSampling == [kind |-> "Other", temperature |-> 0]
\* temperature 1 is the one value whose power the float model computes
Samplings == {FullyBalanced, Temperature(1), OtherSampling}

\* [(size / total_size) ** (1.0 / temperature) for size in dataset_sizes]
TemperatureRatios(dataset_sizes, total_size, power) ==
    IF ~Strict(total_size) \/ ~Strict(power) THEN <<>>
    ELSE [i \in 1..Len(dataset_sizes) |->
             FPow(FDiv(FFromInt(dataset_sizes[i]), total_size), power)]

\* the ratios of the sampling policy before they are normalized
PolicyRatios(sampling, dataset_sizes) ==
    IF sampling.kind = "FullyBalanced"
    THEN [i \in 1..Len(dataset_sizes) |-> FOne]
    ELSE TemperatureRatios(dataset_sizes, FFromInt(IntSum(dataset_sizes)),
                           FDiv(FOne, FFromInt(sampling.temperature)))

\* ratios = [r / sum(ratios) for r in ratios]
NormalizeRatios(ratios) ==
    IF ~Strict(ratios) THEN <<>> ELSE DivideAll(ratios, FSum(ratios))

\* expanded_datasets = [expand_dataset(d, n) for d, n in zip(...)]
ExpandAll(datasets, expanded_dataset_sizes, rawLens) ==
    [i \in 1..Len(datasets) |->
        expand_dataset(datasets[i], expanded_dataset_sizes[i], rawLens)]

\* ConcatDataset(expanded_datasets), unless an expand_dataset raised
ConcatExpanded(expanded, rawLens) ==
    IF ~Strict(expanded) THEN <<>>
    ELSE IF \E i \in 1..Len(expanded) : expanded[i].err # "none"
    THEN [err |-> "ValueError", combined |-> NoDataset]
    ELSE [err |-> "none",
          combined |-> ConcatDataset(
              [i \in 1..Len(expanded) |-> expanded[i].dataset], rawLens)]

ExpandAndConcat(datasets, expanded_dataset_sizes, rawLens) ==
    IF ~Strict(expanded_dataset_sizes) THEN <<>>
    ELSE ConcatExpanded(ExpandAll(datasets, expanded_dataset_sizes, rawLens), rawLens)

CombineSized(sampling, datasets, dataset_sizes, rawLens) ==
    IF ~Strict(dataset_sizes) THEN <<>>
    ELSE ExpandAndConcat(
             datasets,
             _merged_dataset(dataset_sizes,
                             NormalizeRatios(PolicyRatios(sampling, dataset_sizes))),
             rawLens)

\* [err, combined]
_combine_datasets(sampling, datasets, rawLens) ==
    IF sampling.kind \notin {"FullyBalanced", "Temperature"}
    THEN [err |-> "NotImplementedError", combined |-> NoDataset]
    ELSE CombineSized(sampling, datasets,
                      [i \in 1..Len(datasets) |-> DsLen(datasets[i], rawLens)],
                      rawLens)

(***************************************************************************)
(* SpecResample: the resampling computation on lists of dataset sizes.     *)
(* args is the call: _combine_datasets(sampling, datasets) on raw datasets *)
(* of the given sizes, or _merged_dataset(sizes, ratios) followed by the   *)
(* expand step of _combine_datasets.                                       *)
(***************************************************************************)
SeqsUpTo(S, n) == UNION {[1..k -> S] : k \in 1..n}

\* the sizes of the worked example of the documentation
WorkedExample == <<10, 100>>

\* positive ratios a / (MaxR + 1)
RatioValues == {FDiv(FFromInt(a), FFromInt(MaxR + 1)) : a \in 1..MaxR}

CombineCalls ==
    {[fn |-> "_combine_datasets", sizes |-> s, sampling |-> p, ratios |-> <<>>] :
        s \in SeqsUpTo(1..MaxN, MaxK) \cup {WorkedExample}, p \in Samplings}

MergedCalls ==
    {[fn |-> "_merged_dataset", sizes |-> s, sampling |-> OtherSampling, ratios |-> r] :
        s \in SeqsUpTo(1..MaxMergedN, MaxK),
        r \in SeqsUpTo(RatioValues, MaxK)}

RawDatasets(sizes) == [i \in 1..Len(sizes) |-> RawDataset(i)]

Idle ==
    [w \in 1..MaxWorkers |->
        [pc |-> "idle", lvl |-> 0, val |-> <<>>, warm |-> FALSE, reads |-> 0]]
NoAccess == [op |-> "none", index |-> 0, err |-> "none", data |-> <<>>, src |-> 0, calls |-> 0]

NoCall == [fn |-> "none", sizes |-> <<>>, sampling |-> OtherSampling, ratios |-> <<>>]

ResampleInit ==
    /\ args \in {c \in CombineCalls \cup MergedCalls : Len(c.ratios) \in {0, Len(c.sizes)}}
    /\ ret = <<>>
    /\ config = <<>> /\ shared = FALSE /\ storage = <<>> /\ last = NoAccess
    /\ ds = RawDataset(0) /\ cache = <<>> /\ workers = Idle /\ metaReads = 0

CallCombine ==
    /\ args.fn = "_combine_datasets" /\ ret = <<>>
    /\ ret' = <<_combine_datasets(args.sampling, RawDatasets(args.sizes), args.sizes)>>
    /\ UNCHANGED <<config, shared, storage, last, args, ds, cache, workers, metaReads>>

\* _merged_dataset, then lines 175-180 of _combine_datasets on its result
CallMerged ==
    /\ args.fn = "_merged_dataset" /\ ret = <<>>
    /\ ret' = <<ExpandAndConcat(RawDatasets(args.sizes),
                                _merged_dataset(args.sizes, args.ratios),
                                args.sizes)>>
    /\ UNCHANGED <<config, shared, storage, last, args, ds, cache, workers, metaReads>>

ResampleNext == CallCombine \/ CallMerged

SpecResample == ResampleInit /\ [][ResampleNext]_vars

(***************************************************************************)
(* Items.  An item is a record of named fields.  A tensor is               *)
(* [shape |-> dimensions, at |-> index tuple -> entry].                    *)
(***************************************************************************)
Indices(shape) ==
    {ix \in [1..Len(shape) -> 1..IntMax(shape \o <<1>>)] :
        \A d \in 1..Len(shape) : ix[d] <= shape[d]}

\* the item a raw dataset holds at position j (from 1): one atom, a scalar
\* target y and a per-atom vector target force
RawItem(raw, j) ==
    [sid |-> <<raw[1], raw[2], j>>,
     natoms |-> 1,
     y |-> j,
     force |-> [shape |-> <<1, 2>>, at |-> [ix \in Indices(<<1, 2>>) |-> ix[2] + j]]]

\* the raw dataset's atoms_metadata: one entry per item
RawMetadata(items) == [j \in 1..Len(items) |-> 10 * items[j].sid[3] + items[j].natoms]

\* F.one_hot(task_idx, num_classes=total_num_tasks).bool()
one_hot(task_idx, num_classes) == [t \in 1..num_classes |-> t = task_idx + 1]

\* rearrange(onehot, "t -> 1 t")
TaskMask(onehot) ==
    [shape |-> <<1, Len(onehot)>>,
     at |-> [ix \in Indices(<<1, Len(onehot)>>) |-> onehot[ix[2]]]]

Gate(b) == IF b THEN 1 ELSE 0

\* [err, data]: data with data.<key>_onehot set, shape (1, t)
_update_graph_value(data, key, onehot) ==
    IF key \notin DOMAIN data THEN [err |-> "AssertionError", data |-> data]
    ELSE [err |-> "none",
          data |-> ((key \o "_onehot") :>
                        [shape |-> <<1, Len(onehot)>>,
                         at |-> [ix \in Indices(<<1, Len(onehot)>>) |->
                                    data[key] * Gate(onehot[ix[2]])]])
                   @@ data]

\* [err, data]: data with data.<key>_onehot set, shape (n, t, ...): the task
\* dimension is appended and, beyond two dimensions, moved to dim 1
_update_node_value(data, key, onehot) ==
    IF key \notin DOMAIN data THEN [err |-> "AssertionError", data |-> data]
    ELSE LET value == data[key]
             shape == <<value.shape[1], Len(onehot)>> \o Tail(value.shape)
         IN [err |-> "none",
             data |-> ((key \o "_onehot") :>
                          [shape |-> shape,
                           at |-> [ix \in Indices(shape) |->
                                      value.at[<<ix[1]>> \o SubSeq(ix, 3, Len(ix))]
                                      * Gate(onehot[ix[2]])]])
                      @@ data]

RECURSIVE UpdateGraphValues(_, _, _)
UpdateGraphValues(r, keys, onehot) ==
    IF keys = <<>> \/ r.err # "none" THEN r
    ELSE UpdateGraphValues(_update_graph_value(r.data, Head(keys), onehot),
                           Tail(keys), onehot)

RECURSIVE UpdateNodeValues(_, _, _)
UpdateNodeValues(r, keys, onehot) ==
    IF keys = <<>> \/ r.err # "none" THEN r
    ELSE UpdateNodeValues(_update_node_value(r.data, Head(keys), onehot),
                          Tail(keys), onehot)

\* _create_split_dataset._transform(data): [err, data]; every field it sets
\* is set on data itself, also when a later field is missing
_transform(data, task_idx, total_num_tasks, one_hot_targets) ==
    LET onehot == one_hot(task_idx, total_num_tasks)
        tagged == ("task_idx" :> task_idx) @@ ("task_mask" :> TaskMask(onehot)) @@ data
    IN UpdateNodeValues(
           UpdateGraphValues([err |-> "none", data |-> tagged],
                             one_hot_targets.graph_level, onehot),
           one_hot_targets.node_level, onehot)

\* dataset_transform(dataset, _transform, copy_data)
dataset_transform(dataset, task_idx, total_num_tasks, one_hot_targets, copy_data) ==
    Wrap(dataset, [kind |-> "transform", task_idx |-> task_idx,
                   total_num_tasks |-> total_num_tasks,
                   one_hot_targets |-> one_hot_targets, copy_data |-> copy_data])

(***************************************************************************)
(* Item access.  The outcome of dataset[index] is                          *)
(*   [err, data, src, alias, stored, calls]                                *)
(* err: "none" or the exception; data: <<item>> or <<>>; src: the position  *)
(* read in the raw dataset (0: none); alias: data is the instance the raw  *)
(* dataset stores; stored: <<what that instance holds now>> when the       *)
(* access wrote to it; calls: __getitem__ calls that reached the raw       *)
(* dataset.                                                                *)
(***************************************************************************)
Raised(e, calls) ==
    [err |-> e, data |-> <<>>, src |-> 0, alias |-> FALSE, stored |-> <<>>, calls |-> calls]

\* the raw dataset's __getitem__
RawGetItem(raw, index) ==
    IF index < 0 \/ index >= Len(storage[raw]) THEN Raised("IndexError", 1)
    ELSE [err |-> "none", data |-> <<storage[raw][index + 1]>>, src |-> index + 1,
          alias |-> shared, stored |-> <<>>, calls |-> 1]

\* the outcome of transform(data) for the outcome r of the wrapped dataset:
\* without a copy the transform works on the instance the wrapped dataset
\* returned, and what it set stays set when it raises
Transformed(r, alias, t) ==
    [err |-> t.err,
     data |-> IF t.err = "none" THEN <<t.data>> ELSE <<>>,
     src |-> r.src,
     alias |-> alias,
     stored |-> IF alias THEN <<t.data>> ELSE r.stored,
     calls |-> r.calls]

\* _TransformedDataset.__getitem__ on what the wrapped dataset returned
TransformItem(r, dec) ==
    IF r.err # "none" THEN r
    ELSE Transformed(r, r.alias /\ ~dec.copy_data,
                     _transform(r.data[1], dec.task_idx, dec.total_num_tasks,
                                dec.one_hot_targets))

\* not (index < 0 or index >= n)
InRange(index, n) == index >= 0 /\ index < n

ExpandIndexFolded(index, og_size) == IF index < og_size THEN index ELSE index - og_size

ExpandIndexClamped(index, og_size) == IF index < og_size THEN index ELSE og_size - 1

\* index % og_size
ExpandIndex(index, og_size) == index % og_size

RECURSIVE GetItem(_, _, _, _)
\* chain[lvl].__getitem__(index); level 0 is the raw dataset
GetItem(raw, chain, lvl, index) ==
    IF lvl = 0 THEN RawGetItem(raw, index)
    ELSE LET dec == chain[lvl]
         IN IF dec.kind = "transform"
            THEN TransformItem(GetItem(raw, chain, lvl - 1, index), dec)
            ELSE IF ~InRange(index, dec.n) THEN Raised("IndexError", 0)
            ELSE IF dec.kind = "expand"
            THEN IF dec.og_size = 0 THEN Raised("ZeroDivisionError", 0)
                 ELSE GetItem(raw, chain, lvl - 1, ExpandIndex(index, dec.og_size))
            ELSE IF dec.kind = "first_n"
            THEN GetItem(raw, chain, lvl - 1, index)
            ELSE GetItem(raw, chain, lvl - 1, dec.sampled_indices[index + 1])

DsGetItem(dataset, index) ==
    GetItem(dataset.raw, dataset.chain, Len(dataset.chain), index)

\* bisect.bisect_right(a, x)
bisect_right(a, x) == Cardinality({i \in 1..Len(a) : a[i] <= x})

\* ConcatDataset.__getitem__(idx): the outcome and the dataset that served it
ConcatGetItem(c, idx) ==
    IF idx < 0 /\ -idx > ConcatLen(c)
    THEN [part |-> 0, r |-> Raised("ValueError", 0)]
    ELSE LET i == IF idx < 0 THEN ConcatLen(c) + idx ELSE idx
             dataset_idx == bisect_right(c.cumulative_sizes, i)
             sample_idx == IF dataset_idx = 0 THEN i
                           ELSE i - c.cumulative_sizes[dataset_idx]
         IN IF dataset_idx >= Len(c.datasets)
            THEN [part |-> 0, r |-> Raised("IndexError", 0)]
            ELSE [part |-> dataset_idx + 1,
                  r |-> DsGetItem(c.datasets[dataset_idx + 1], sample_idx)]

(***************************************************************************)
(* dataset.py: create_datasets                                             *)
(***************************************************************************)
Splits == <<"train", "val", "test">>

\* config.<split> of a task: the size of the dataset it names, 0 for None
SplitOf(task_config, split) ==
    IF split = "train" THEN task_config.train
    ELSE IF split = "val" THEN task_config.val ELSE task_config.test

\* _create_split_dataset(config.<split>, task_idx, total_num_tasks, one_hot_targets)
_create_split_dataset(raw, task_idx, total_num_tasks, one_hot_targets) ==
    dataset_transform(RawDataset(raw), task_idx, total_num_tasks, one_hot_targets, FALSE)

EnumerateFromOne(i) == i

\* enumerate(config.datasets): the index of the i-th task (i from 1)
Enumerate(i) == i - 1

RECURSIVE SplitDatasets(_, _, _)
\* the <split>_datasets list after the first i tasks of the loop
SplitDatasets(cfg, split, i) ==
    IF i = 0 THEN <<>>
    ELSE LET before == SplitDatasets(cfg, split, i - 1)
         IN IF SplitOf(cfg.datasets[i], split) = 0 THEN before
            ELSE Append(before,
                        _create_split_dataset(<<i - 1, split>>, Enumerate(i),
                                              Len(cfg.datasets), cfg.one_hot_targets))

Failed(e) == [err |-> e, train |-> NoDataset, val |-> NoDataset, test |-> NoDataset]

\* _combine_datasets(...) if train_datasets else None
CombineTrain(sampling, train_datasets, rawLens) ==
    IF train_datasets # <<>> THEN _combine_datasets(sampling, train_datasets, rawLens)
    ELSE [err |-> "none", combined |-> NoDataset]

\* ConcatDataset(datasets) if datasets else None
ConcatOrNone(datasets, rawLens) ==
    IF datasets # <<>> THEN ConcatDataset(datasets, rawLens) ELSE NoDataset

\* the return statement, reached unless the train combination raised
ReturnDatasets(train, val_datasets, test_datasets, rawLens) ==
    IF ~Strict(train) THEN <<>>
    ELSE IF train.err # "none" THEN Failed(train.err)
    ELSE [err |-> "none",
          train |-> train.combined,
          val |-> ConcatOrNone(val_datasets, rawLens),
          test |-> ConcatOrNone(test_datasets, rawLens)]

\* [err, train, val, test]
create_datasets(cfg, rawLens) ==
    IF Len(cfg.datasets) = 0 THEN Failed("AssertionError")
    ELSE ReturnDatasets(
             CombineTrain(cfg.sampling,
                          SplitDatasets(cfg, "train", Len(cfg.datasets)), rawLens),
             SplitDatasets(cfg, "val", Len(cfg.datasets)),
             SplitDatasets(cfg, "test", Len(cfg.datasets)),
             rawLens)

(***************************************************************************)
(* Spec: create_datasets(config), then item access on the datasets it      *)
(* returned.  The raw datasets of the configured splits hold at least one  *)
(* item each.                                                              *)
(***************************************************************************)
TaskConfigs ==
    {t \in [train : 0..MaxItems, val : 0..MaxItems, test : 0..MaxItems] :
        t.train + t.val + t.test <= MaxTotal}

ConfigItems(datasets) ==
    IntSum([i \in 1..Len(datasets) |->
               datasets[i].train + datasets[i].val + datasets[i].test])

EvalItems(datasets) ==
    IntSum([i \in 1..Len(datasets) |-> datasets[i].val + datasets[i].test])

\* the targets the task configurations ask to be one-hot encoded
OneHotTargets == [graph_level |-> <<"y">>, node_level |-> <<"force">>]

Configs ==
    {[datasets |-> d, sampling |-> p, one_hot_targets |-> OneHotTargets] :
        d \in {x \in UNION {[1..k -> TaskConfigs] : k \in 0..MaxTasks} :
                  ConfigItems(x) <= MaxTotal /\ EvalItems(x) <= MaxEval},
        p \in Samplings}

RawIds(cfg) ==
    {<<i - 1, Splits[s]>> : i \in 1..Len(cfg.datasets), s \in 1..3}

\* what the raw datasets of the configured splits hold
RawStorage(cfg) ==
    [raw \in {x \in RawIds(cfg) : SplitOf(cfg.datasets[x[1] + 1], x[2]) > 0} |->
        [j \in 1..SplitOf(cfg.datasets[raw[1] + 1], raw[2]) |-> RawItem(raw, j)]]

RawLens == [raw \in DOMAIN storage |-> Len(storage[raw])]

Init ==
    /\ config \in Configs
    /\ shared \in BOOLEAN
    /\ storage = RawStorage(config)
    /\ ret = <<>> /\ last = NoAccess
    /\ args = NoCall
    /\ ds = RawDataset(0) /\ cache = <<>> /\ workers = Idle /\ metaReads = 0

CreateDatasets ==
    /\ ret = <<>>
    /\ ret' = <<create_datasets(config, RawLens)>>
    /\ UNCHANGED <<config, shared, storage, last, args, ds, cache, workers, metaReads>>

Composed(split) ==
    IF split = "train" THEN ret[1].train
    ELSE IF split = "val" THEN ret[1].val ELSE ret[1].test

\* the access and what it leaves behind in the raw dataset it read
Accessed(split, index, got, raw) ==
    /\ last' = [op |-> split, index |-> index, err |-> got.r.err,
                data |-> got.r.data, src |-> got.r.src, calls |-> got.r.calls]
    /\ storage' = IF got.r.stored = <<>> THEN storage
                  ELSE [storage EXCEPT ![raw][got.r.src] = got.r.stored[1]]

AccessAt(split, index, c, got) ==
    Accessed(split, index, got,
             IF got.part = 0 THEN <<>> ELSE c.datasets[got.part].raw)

\* <split>_dataset[index] by the data-loading layer
AccessItem ==
    /\ ret # <<>>
    /\ \E s \in 1..3 :
        /\ Composed(Splits[s]) # NoDataset
        /\ \E index \in -(ConcatLen(Composed(Splits[s])) + 1)..ConcatLen(Composed(Splits[s])) :
            AccessAt(Splits[s], index, Composed(Splits[s]),
                     ConcatGetItem(Composed(Splits[s]), index))
    /\ UNCHANGED <<config, shared, ret, args, ds, cache, workers, metaReads>>

Next == CreateDatasets \/ AccessItem

Spec == Init /\ [][Next]_vars

(***************************************************************************)
(* dataset_transform.py: first_n_transform, sample_n_transform and the     *)
(* atoms_metadata of the decorators                                        *)
(***************************************************************************)
\* first_n_transform(dataset, n): [err, dataset]
first_n_transform(dataset, n, rawLens) ==
    IF DsLen(dataset, rawLens) < n THEN [err |-> "ValueError", dataset |-> dataset]
    ELSE [err |-> "none", dataset |-> Wrap(dataset, [kind |-> "first_n", n |-> n])]

\* what np.random.default_rng(seed).choice(size, n, replace=False) can
\* return over all seeds: n distinct indices below size
Choices(size, n) ==
    {c \in [1..n -> 0..(size - 1)] : \A i, j \in 1..n : c[i] = c[j] => i = j}

\* sample_n_transform(dataset, n, seed): [err, dataset], for a seed whose
\* choice is sampled_indices
sample_n_transform(dataset, n, sampled_indices, rawLens) ==
    IF DsLen(dataset, rawLens) < n THEN [err |-> "ValueError", dataset |-> dataset]
    ELSE [err |-> "none",
          dataset |-> Wrap(dataset, [kind |-> "sample_n", n |-> n,
                                     sampled_indices |-> sampled_indices])]

NpResizeStretched(metadata, n) ==
    IF Len(metadata) = 0 THEN [i \in 1..n |-> 0]
    ELSE [i \in 1..n |-> metadata[(((i - 1) * Len(metadata)) \div n) + 1]]

\* np.resize(metadata, (n,)): metadata repeated to length n, zeros when
\* metadata is empty
NpResize(metadata, n) ==
    IF Len(metadata) = 0 THEN [i \in 1..n |-> 0]
    ELSE [i \in 1..n |-> metadata[((i - 1) % Len(metadata)) + 1]]

\* the body of _atoms_metadata_cached of decorator dec, on the
\* atoms_metadata of the dataset it wraps
MetadataOf(dec, metadata) ==
    IF dec.kind = "expand" THEN NpResize(metadata, dec.n)
    ELSE IF dec.kind = "first_n"
    THEN SubSeq(metadata, 1, IF dec.n < Len(metadata) THEN dec.n ELSE Len(metadata))
    ELSE [i \in 1..dec.n |-> metadata[dec.sampled_indices[i] + 1]]

CacheSkip(c, lvl, val) == c

\* functools.cache stores the result of the call
CacheStore(c, lvl, val) == [c EXCEPT ![lvl] = <<val>>]

(***************************************************************************)
(* One atoms_metadata access is a walk over the chain.  Its frame is       *)
(* [pc, lvl, val, reads]: "call" at level lvl is the attribute lookup on   *)
(* that level, "return" at level lvl holds the value val that level        *)
(* returned.  A step is one of: the cache lookup of a decorator (a hit     *)
(* returns, a miss enters the body, which reads the wrapped dataset's      *)
(* atoms_metadata), the forwarding of the attribute by a transform proxy,  *)
(* the raw dataset's own atoms_metadata, and the rest of a body with the   *)
(* store of its result.  reads counts the reads of a wrapped dataset's     *)
(* atoms_metadata made by decorator bodies.                                *)
(***************************************************************************)
MetaCall(chain, c, rawMetadata, fr) ==
    IF fr.lvl = 0
    THEN [fr |-> [fr EXCEPT !.pc = "return", !.val = <<rawMetadata>>], cache |-> c, raw |-> 1]
    ELSE IF chain[fr.lvl].kind = "transform"
    THEN [fr |-> [fr EXCEPT !.lvl = @ - 1], cache |-> c, raw |-> 0]
    ELSE IF c[fr.lvl] # <<>>
    THEN [fr |-> [fr EXCEPT !.pc = "return", !.val = c[fr.lvl]], cache |-> c, raw |-> 0]
    ELSE [fr |-> [fr EXCEPT !.lvl = @ - 1, !.reads = @ + 1], cache |-> c, raw |-> 0]

MetaReturn(chain, c, top, fr) ==
    IF fr.lvl = top
    THEN [fr |-> [fr EXCEPT !.pc = "done"], cache |-> c, raw |-> 0]
    ELSE IF chain[fr.lvl + 1].kind = "transform"
    THEN [fr |-> [fr EXCEPT !.lvl = @ + 1], cache |-> c, raw |-> 0]
    ELSE [fr |-> [fr EXCEPT !.lvl = @ + 1,
                            !.val = <<MetadataOf(chain[fr.lvl + 1], fr.val[1])>>],
          cache |-> CacheStore(c, fr.lvl + 1,
                               MetadataOf(chain[fr.lvl + 1], fr.val[1])),
          raw |-> 0]

\* one step of an access to the atoms_metadata of chain[top]
MetaStep(chain, c, rawMetadata, top, fr) ==
    IF fr.pc = "call" THEN MetaCall(chain, c, rawMetadata, fr)
    ELSE MetaReturn(chain, c, top, fr)

RECURSIVE MetaRun(_, _, _, _, _)
\* the access run to its end by a caller that nothing interleaves with
MetaRun(chain, rawMetadata, top, st, raws) ==
    IF st.fr.pc = "done" THEN [fr |-> st.fr, cache |-> st.cache, raw |-> raws + st.raw]
    ELSE MetaRun(chain, rawMetadata, top,
                 MetaStep(chain, st.cache, rawMetadata, top, st.fr), raws + st.raw)

(***************************************************************************)
(* SpecChain: decorators are wrapped around one raw dataset, and one       *)
(* caller reads items and atoms_metadata of the outermost one.             *)
(* SpecMeta: the same wrapping, then every worker makes one atoms_metadata *)
(* access on the outermost decorator, their steps interleaved.             *)
(***************************************************************************)
ChainRaw == <<0, "train">>

ChainInit ==
    /\ \E len \in 0..MaxLen :
          storage = (ChainRaw :> [j \in 1..len |-> RawItem(ChainRaw, j)])
    /\ shared \in BOOLEAN
    /\ ds = RawDataset(ChainRaw) /\ cache = <<>>
    /\ workers = Idle /\ metaReads = 0 /\ last = NoAccess
    /\ config = <<>> /\ ret = <<>> /\ args = NoCall

NoWorkerStarted == \A w \in 1..MaxWorkers : workers[w].pc = "idle"

\* the outcome r of a wrapping call: the dataset it returned, or its error
Wrapped(op, n, r) ==
    /\ ds' = r.dataset
    /\ cache' = IF r.err = "none" THEN Append(cache, <<>>) ELSE cache
    /\ last' = [op |-> op, index |-> n, err |-> r.err, data |-> <<>>, src |-> 0,
                calls |-> 0]
    /\ UNCHANGED <<config, shared, storage, ret, args, workers, metaReads>>

WrapExpand ==
    /\ Len(ds.chain) < MaxDepth /\ NoWorkerStarted
    /\ \E n \in 0..MaxWrapN : Wrapped("expand_dataset", n, expand_dataset(ds, n, RawLens))

WrapFirstN ==
    /\ Len(ds.chain) < MaxDepth /\ NoWorkerStarted
    /\ \E n \in 0..MaxWrapN :
          Wrapped("first_n_transform", n, first_n_transform(ds, n, RawLens))

WrapSampleN ==
    /\ Len(ds.chain) < MaxDepth /\ NoWorkerStarted
    /\ \E n \in 0..MaxWrapN :
          IF DsLen(ds, RawLens) < n
          THEN Wrapped("sample_n_transform", n, sample_n_transform(ds, n, <<>>, RawLens))
          ELSE \E sampled_indices \in Choices(DsLen(ds, RawLens), n) :
                  Wrapped("sample_n_transform", n,
                          sample_n_transform(ds, n, sampled_indices, RawLens))

\* dataset_transform with the task tagging of a one-task configuration
WrapTransform ==
    /\ Len(ds.chain) < MaxDepth /\ NoWorkerStarted
    /\ \E copy_data \in BOOLEAN :
          Wrapped("dataset_transform", 0,
                  [err |-> "none",
                   dataset |-> dataset_transform(ds, 0, 1, OneHotTargets, copy_data)])

\* the item access and what it leaves behind in the raw dataset
ChainAccessed(index, r) ==
    /\ last' = [op |-> "getitem", index |-> index, err |-> r.err, data |-> r.data,
                src |-> r.src, calls |-> r.calls]
    /\ storage' = IF r.stored = <<>> THEN storage
                  ELSE [storage EXCEPT ![ds.raw][r.src] = r.stored[1]]
    /\ UNCHANGED <<config, shared, ret, args, ds, cache, workers, metaReads>>

\* ds[index]
ChainGetItem ==
    /\ ds.chain # <<>>
    /\ \E index \in -1..DsLen(ds, RawLens) : ChainAccessed(index, DsGetItem(ds, index))

NewFrame(top) == [pc |-> "call", lvl |-> top, val |-> <<>>, reads |-> 0]

MetaRead(r) ==
    /\ cache' = r.cache
    /\ metaReads' = metaReads + r.raw
    /\ last' = [op |-> "atoms_metadata", index |-> 0, err |-> "none",
                data |-> r.fr.val, src |-> 0, calls |-> r.fr.reads]
    /\ UNCHANGED <<config, shared, storage, ret, args, ds, workers>>

\* ds.atoms_metadata, read by the one caller
ChainMetadata ==
    /\ ds.chain # <<>>
    /\ metaReads < MaxReads
    /\ MetaRead(MetaRun(ds.chain, RawMetadata(storage[ds.raw]), Len(ds.chain),
                        [fr |-> NewFrame(Len(ds.chain)), cache |-> cache, raw |-> 0], 0))

ChainNext ==
    \/ WrapExpand \/ WrapFirstN \/ WrapSampleN \/ WrapTransform
    \/ ChainGetItem \/ ChainMetadata

SpecChain == ChainInit /\ [][ChainNext]_vars

MetaInit == ChainInit /\ ~shared

\* worker w starts its access; warm: an access had completed by then
Start(w) ==
    /\ ds.chain # <<>>
    /\ workers[w].pc = "idle"
    /\ workers' = [workers EXCEPT ![w] =
                      [pc |-> "call", lvl |-> Len(ds.chain), val |-> <<>>,
                       warm |-> \E v \in 1..MaxWorkers : workers[v].pc = "done",
                       reads |-> 0]]
    /\ UNCHANGED <<config, shared, storage, ret, last, args, ds, cache, metaReads>>

Stepped(w, r) ==
    /\ workers' = [workers EXCEPT ![w] =
                      [pc |-> r.fr.pc, lvl |-> r.fr.lvl, val |-> r.fr.val,
                       warm |-> workers[w].warm, reads |-> r.fr.reads]]
    /\ cache' = r.cache
    /\ metaReads' = metaReads + r.raw
    /\ UNCHANGED <<config, shared, storage, ret, last, args, ds>>

\* worker w takes the next step of its access
Step(w) ==
    /\ workers[w].pc \in {"call", "return"}
    /\ Stepped(w, MetaStep(ds.chain, cache, RawMetadata(storage[ds.raw]), Len(ds.chain),
                           [pc |-> workers[w].pc, lvl |-> workers[w].lvl,
                            val |-> workers[w].val, reads |-> workers[w].reads]))

MetaNext ==
    \/ WrapExpand \/ WrapFirstN \/ WrapSampleN \/ WrapTransform
    \/ \E w \in 1..MaxWorkers : Start(w)
    \/ \E w \in 1..MaxWorkers : Step(w)

SpecMeta == MetaInit /\ [][MetaNext]_vars

(***************************************************************************)
(* Claims checked under SpecResample                                       *)
(***************************************************************************)
Returned == ret # <<>>

\* the expanded sizes n_1..n_k of a combined dataset
ExpandedSizes(combined) ==
    [i \in 1..Len(combined.datasets) |->
        combined.datasets[i].chain[Len(combined.datasets[i].chain)].n]

\* the normalized ratios the call hands to _merged_dataset
CallRatios ==
    IF args.fn = "_merged_dataset" THEN args.ratios
    ELSE LET r == PolicyRatios(args.sampling, args.sizes)
         IN IF ~Strict(r) THEN <<>> ELSE NormalizeRatios(r)

Resampled ==
    /\ Returned
    /\ args.fn = "_merged_dataset" \/ args.sampling.kind \in {"FullyBalanced", "Temperature"}

\* C2: under FullyBalanced sampling every task gets the same final sample
\* count, the largest dataset size, and the combined train dataset has
\* length k * max(s_i)
C2_FullyBalancedEqualCounts ==
    (Returned /\ args.fn = "_combine_datasets" /\ args.sampling = FullyBalanced)
    => /\ ret[1].err = "none"
       /\ \A i \in 1..Len(args.sizes) :
             ExpandedSizes(ret[1].combined)[i] = IntMax(args.sizes)
       /\ ConcatLen(ret[1].combined) = Len(args.sizes) * IntMax(args.sizes)

\* every task whose raw expansion factor f[j] is the smallest keeps its size
SmallestKeepsSize(f, n) ==
    IF ~Strict(f) THEN FALSE
    ELSE \A j \in 1..Len(f) : f[j] = FMin(f) => n[j] = args.sizes[j]

\* C8: for positive sizes and positive ratios the resampling computation
\* returns n_i >= s_i for every task and n_j = s_j for at least one task,
\* the one with the smallest raw expansion factor, so no expand_dataset
\* call of the composer raises ValueError
C8_NeverShrinks ==
    Resampled
    => /\ ret[1].err = "none"
       /\ \A i \in 1..Len(args.sizes) :
             ExpandedSizes(ret[1].combined)[i] >= args.sizes[i]
       /\ \E j \in 1..Len(args.sizes) :
             ExpandedSizes(ret[1].combined)[j] = args.sizes[j]
       /\ SmallestKeepsSize(RawExpansionFactors(args.sizes, CallRatios),
                            ExpandedSizes(ret[1].combined))

C8_Witness ==
    /\ Resampled /\ ret[1].err = "none"
    /\ args.fn = "_merged_dataset"
    /\ \E i, j \in 1..Len(args.sizes) :
          /\ ExpandedSizes(ret[1].combined)[i] > args.sizes[i]
          /\ ExpandedSizes(ret[1].combined)[j] = args.sizes[j]

\* C10: the counts of the two-step formula equal the counts of a single
\* min-normalization, n_i = ceil(s_i * (f_i / min_j f_j)) with f the raw
\* expansion factors: the minimum of the rescaled factors, by which the
\* second step divides, is exactly 1.0
C10_SecondDivisionByOne ==
    Resampled
    => LET f == RawExpansionFactors(args.sizes, CallRatios)
       IN IF ~Strict(f) THEN FALSE ELSE
       LET rescaled == RescaleByMin(f)
           lo == FMin(f)
       IN IF ~Strict(rescaled) \/ ~Strict(lo) THEN FALSE ELSE
          /\ FMin(rescaled) = FOne
          /\ ret[1].err = "none"
          /\ ExpandedSizes(ret[1].combined) =
                [i \in 1..Len(args.sizes) |->
                    FCeil(FMul(FFromInt(args.sizes[i]), FDiv(f[i], lo)))]

C10_Witness ==
    /\ Resampled /\ ret[1].err = "none"
    /\ Len(args.sizes) > 1
    /\ ExpandedSizes(ret[1].combined) # args.sizes
    /\ \E i \in 1..Len(args.sizes) :
          RawExpansionFactors(args.sizes, CallRatios)[i] # FOne

(***************************************************************************)
(* Claims checked under Spec                                               *)
(***************************************************************************)
Created == ret # <<>> /\ ret[1].err = "none"

\* the tasks (positions from 1) that configure the split, in configuration order
TasksWith(split) ==
    SelectSeq([i \in 1..Len(config.datasets) |-> i],
              LAMBDA i : SplitOf(config.datasets[i], split) > 0)

\* s_j: the sizes of their datasets
SizesOf(split) ==
    [j \in 1..Len(TasksWith(split)) |->
        SplitOf(config.datasets[TasksWith(split)[j]], split)]

\* n_j: the expanded sizes for train, the sizes themselves for val and test
CountsOf(split) ==
    IF split = "train" THEN ExpandedSizes(ret[1].train) ELSE SizesOf(split)

\* o_j: the offset of the j-th range
OffsetOf(n, j) == IntSum(SubSeq(n, 1, j - 1))

\* what task i's tagged dataset of the split returns at position pos (from 1)
TaggedItem(i, split, pos) ==
    _transform(RawItem(<<i - 1, split>>, pos), i - 1, Len(config.datasets),
               config.one_hot_targets).data

\* C3: every item a composed dataset returns carries a task_mask of length
\* total_num_tasks whose one true entry is at task_idx, and task_idx is the
\* 0-based position of the item's task in the configuration list
C3_TaskMaskOneHot ==
    (Created /\ last.op # "none" /\ last.err = "none")
    => /\ last.data[1].task_mask.shape = <<1, Len(config.datasets)>>
       /\ {t \in 1..Len(config.datasets) : last.data[1].task_mask.at[<<1, t>>]}
             = {last.data[1].task_idx + 1}
       /\ last.data[1].task_idx = last.data[1].sid[1]

\* an item of the second task served while the first task lacks the split
C3_Witness ==
    /\ Created /\ last.op # "none" /\ last.err = "none"
    /\ last.data[1].task_idx = 1
    /\ SplitOf(config.datasets[1], last.op) = 0

\* the claim of C4 for one split
OrderedConcatenation(split) ==
    Composed(split) # NoDataset
    => /\ Len(CountsOf(split)) = Len(TasksWith(split))
       /\ ConcatLen(Composed(split)) = IntSum(CountsOf(split))
       /\ (last.op = split /\ last.index >= 0 /\ last.index < IntSum(CountsOf(split)))
          => \E j \in 1..Len(TasksWith(split)) :
                /\ OffsetOf(CountsOf(split), j) <= last.index
                /\ last.index < OffsetOf(CountsOf(split), j) + CountsOf(split)[j]
                /\ last.err = "none"
                /\ last.data =
                      <<TaggedItem(TasksWith(split)[j], split,
                                   ((last.index - OffsetOf(CountsOf(split), j))
                                       % SizesOf(split)[j]) + 1)>>

\* C4: the index range of a composed dataset is the concatenation, in
\* configuration order, of the ranges of the tasks that configure the split;
\* global index g with o_j <= g < o_j + n_j returns task j's tagged item at
\* local index (g - o_j) mod s_j (n_j = s_j for val and test)
C4_OrderedConcatenation ==
    Created => \A s \in 1..3 : OrderedConcatenation(Splits[s])

\* a train access beyond the first pass over an expanded dataset of more
\* than one item, behind the range of an earlier task
C4_Witness ==
    /\ Created /\ last.op = "train" /\ last.err = "none"
    /\ Len(TasksWith("train")) = 2
    /\ last.data[1].sid[1] = 1
    /\ SizesOf("train")[2] > 1
    /\ last.index - OffsetOf(CountsOf("train"), 2) >= SizesOf("train")[2]

C4_WitnessEval ==
    /\ Created /\ last.op = "val" /\ last.err = "none"
    /\ last.index > 0 /\ last.data[1].sid[1] = 1

\* C5: item access through the decorators never changes what the wrapped
\* dataset stores
C5_StorageUntouched == storage = RawStorage(config)

\* C7: with a sampling policy other than FullyBalanced and Temperature
\* create_datasets fails with the unsupported-policy error and returns no
\* dataset, whichever splits the tasks configure
C7_UnsupportedPolicyFails ==
    (ret # <<>> /\ Len(config.datasets) > 0 /\ config.sampling = OtherSampling)
    => ret[1] = Failed("NotImplementedError")

(***************************************************************************)
(* Claims checked under SpecChain                                          *)
(***************************************************************************)
Top == ds.chain[Len(ds.chain)]

\* the dataset d the outermost decorator wraps
Inner == [raw |-> ds.raw, chain |-> SubSeq(ds.chain, 1, Len(ds.chain) - 1)]

\* the outcome an access recorded in last, as item access reports it
Outcome(r) == [err |-> r.err, data |-> r.data, src |-> r.src, calls |-> r.calls]

LastOutcome == [err |-> last.err, data |-> last.data, src |-> last.src, calls |-> last.calls]

\* C1 as stated, the empty dataset included: for every sized dataset d and
\* every n >= len(d),
\* expand(d, n) reports length n, item access at every i with 0 <= i < n
\* returns exactly what d returns at i mod len(d) (which has to exist), and
\* item access outside [0, n) fails with IndexError without reading the
\* wrapped dataset
C1_ExpandContractAnyDataset ==
    (ds.chain # <<>> /\ Top.kind = "expand")
    => /\ DsLen(ds, RawLens) = Top.n
       /\ last.op = "getitem"
          => IF last.index >= 0 /\ last.index < Top.n
             THEN /\ DsLen(Inner, RawLens) > 0
                  /\ LastOutcome =
                        Outcome(DsGetItem(Inner, last.index % DsLen(Inner, RawLens)))
             ELSE last.err = "IndexError" /\ last.calls = 0

\* C1: for every non-empty sized dataset d and every n >= len(d),
\* expand(d, n) reports length n, item access at every i with 0 <= i < n
\* returns exactly what d returns at i mod len(d), and item access outside
\* [0, n) fails with IndexError without reading the wrapped dataset
C1_ExpandContract ==
    (ds.chain # <<>> /\ Top.kind = "expand" /\ DsLen(Inner, RawLens) > 0)
    => /\ DsLen(ds, RawLens) = Top.n
       /\ Top.n >= DsLen(Inner, RawLens)
       /\ last.op = "getitem"
          => IF last.index >= 0 /\ last.index < Top.n
             THEN LastOutcome =
                     Outcome(DsGetItem(Inner, last.index % DsLen(Inner, RawLens)))
             ELSE last.err = "IndexError" /\ last.calls = 0

\* an access beyond the first pass over a dataset of two items
C1_Witness ==
    /\ ds.chain # <<>> /\ Top.kind = "expand"
    /\ DsLen(Inner, RawLens) = 2 /\ Top.n = 3
    /\ last.op = "getitem" /\ last.index = 2 /\ last.err = "none" /\ last.calls = 1

\* ds[index], as item access would serve it now
ChainItem(index) == DsGetItem(ds, index)

HasEmptyExpand ==
    \E lvl \in 1..Len(ds.chain) :
        ds.chain[lvl].kind = "expand" /\ ds.chain[lvl].og_size = 0

\* the atoms_metadata read at the outermost decorator has the decorated
\* length and, at every index below it, the raw dataset's entry at the
\* position item access reads
MetadataAligned ==
    /\ Len(last.data[1]) = DsLen(ds, RawLens)
    /\ \A i \in 0..(DsLen(ds, RawLens) - 1) :
          /\ ChainItem(i).err = "none"
          /\ last.data[1][i + 1] = RawMetadata(storage[ds.raw])[ChainItem(i).src]

\* C9 as stated, for every chain: through every chain of expand, first_n, sample_n
\* and transform decorators the decorated atoms_metadata has the decorated
\* length and its entry at every index below it is the wrapped dataset's
\* entry at the index item access delegates to
C9_MetadataAlignedAnyChain ==
    (ds.chain # <<>> /\ last.op = "atoms_metadata") => MetadataAligned

\* C9: the same through every chain in which no expand wraps an empty
\* dataset
C9_MetadataAligned ==
    (ds.chain # <<>> /\ last.op = "atoms_metadata" /\ ~HasEmptyExpand)
    => MetadataAligned

\* the metadata of an expansion, with wraparound, of a sample that is not
\* in the raw dataset's order
C9_Witness ==
    /\ Len(ds.chain) = 2 /\ last.op = "atoms_metadata"
    /\ ds.chain[1].kind = "sample_n" /\ ds.chain[1].n = 2
    /\ ds.chain[1].sampled_indices = <<1, 0>>
    /\ Top.kind = "expand" /\ Top.n = 3
    /\ last.data[1][3] = RawMetadata(storage[ds.raw])[2]

(***************************************************************************)
(* Claims checked under SpecMeta                                           *)
(***************************************************************************)
Caching == ds.chain # <<>> /\ Top.kind \in {"expand", "first_n", "sample_n"}

Done(w) == workers[w].pc = "done"

RECURSIVE MetadataAt(_)
\* the atoms_metadata of level lvl of the chain, computed afresh
MetadataAt(lvl) ==
    IF lvl = 0 THEN RawMetadata(storage[ds.raw])
    ELSE IF ds.chain[lvl].kind = "transform" THEN MetadataAt(lvl - 1)
    ELSE MetadataOf(ds.chain[lvl], MetadataAt(lvl - 1))

\* C6: wrapping computes no metadata; under every interleaving of the
\* workers' atoms_metadata accesses on a dataset decorated by expand,
\* first_n or sample_n every access returns the same sequence, and an access
\* that starts once one has completed does not read the wrapped dataset's
\* atoms_metadata
C6_MemoizedUnderConcurrency ==
    /\ NoWorkerStarted => (metaReads = 0 /\ \A lvl \in 1..Len(cache) : cache[lvl] = <<>>)
    /\ Caching
       => \A w \in 1..MaxWorkers :
             /\ Done(w) => workers[w].val = <<MetadataAt(Len(ds.chain))>>
             /\ \A v \in 1..MaxWorkers :
                   (Done(w) /\ Done(v)) => workers[w].val = workers[v].val
             /\ workers[w].warm => workers[w].reads = 0

\* two workers computed the metadata redundantly
C6_Witness ==
    /\ Caching
    /\ Done(1) /\ Done(2)
    /\ workers[1].reads > 0 /\ workers[2].reads > 0
    /\ Len(workers[1].val[1]) > 1

\* a worker that started after another had completed
C6_WitnessLater ==
    /\ Caching
    /\ \E w, v \in 1..MaxWorkers :
          Done(w) /\ Done(v) /\ workers[w].warm /\ workers[v].reads > 0

====
